---- MODULE Spec2Model ----
(***************************************************************************)
(* teleups: the UPS power-state monitor (src/ups_monitor.py), its Telegram *)
(* notifier and command listener (src/utils/telegram_notifier.py), the     *)
(* status message builder (src/utils/common.py) and the Wake-on-LAN sender *)
(* (src/utils/wol.py).                                                     *)
(*                                                                         *)
(* The scheduler thread is modelled method by method: one action per       *)
(* method of UPSMonitor that talks to the outside (the UPS reads it makes, *)
(* the notification it delivers, the magic packet it sends), and pc is the *)
(* method the thread is about to run.  The UPS is an environment whose     *)
(* state changes between any two steps; utils/nut.py is not part of the    *)
(* sources, so its reads are modelled from the interface of spec.md        *)
(* section 6: every read returns the UPS's current value or fails with a   *)
(* connectivity error.                                                     *)
(***************************************************************************)
EXTENDS Integers, Sequences, FiniteSets, TLC

\* ---------------------------------------------------------------- bounds
MaxTicks == 3          \* check_ups_status jobs started
MaxWakes == 1          \* periodic send_wol_magic_packet jobs started
MaxMacs == 4           \* length of a target list handed to WakeOnLAN

\* ------------------------------------------------------- input domains
BatteryPercents == {20, 80}
LowThresholds   == {20}
PowerDraws      == {50}
StatusTexts     == {"OL", "OB"}
MacLists        == {<<>>, <<"AA:BB:CC:DD:EE:FF">>}
WakeIntervals   == {-1, 0, 1}
ChatIdNumbers   == {-1001, -1002}
ChatTypes       == {"channel", "private"}
Texts           == {"/ups", "/ups now"}

VARIABLES
    \* UPSMonitor fields (src/ups_monitor.py:36-42)
    last_ups_on_battery_status,
    last_ups_low_battery_status,
    wol_mac_list,
    auto_wake_interval,
    \* the schedule library's job list, the scheduler thread's position and
    \* the exception that ended it
    jobs,
    pc,
    exc,
    \* parameters and locals of the job the scheduler thread is running, and
    \* the UPS's low-battery flag at the moment the job sampled on-battery
    frame,
    \* the UPS behind the NUT client (environment)
    ups,
    \* command listener thread and the last update it handled
    listener,
    inbound,
    \* observable history: the notifications and broadcasts attempted (each
    \* with the job that made it and the number of samples taken so far),
    \* whether no delivery has succeeded so far, the on-battery samples the
    \* ticks took, the last low-battery status handle_power_outage read, the
    \* periodic-wake jobs started
    sent,
    all_deliveries_failed,
    samples,
    low_read,
    nwakes,
    \* the low-battery values handle_power_outage has read, each with its tick
    low_reads,
    \* the last direct call of WakeOnLAN.send_wol_magic_packet: the target
    \* list of the object, the value returned and the send_magic_packet calls
    \* made (used when the class is exercised on its own)
    wol_call

monitorState == <<last_ups_on_battery_status, last_ups_low_battery_status>>
config       == <<wol_mac_list, auto_wake_interval>>
listenerVars == <<listener, inbound>>
history      == <<sent, all_deliveries_failed, samples, low_read, nwakes, low_reads>>
vars == <<monitorState, config, jobs, pc, exc, frame, ups, listenerVars, history,
         wol_call>>

\* --------------------------------------------------------------- values
None == {}
Some(v) == {v}
The(s) == CHOOSE v \in s : TRUE

NoFrame ==
    [job |-> "none",
     current_ups_on_battery_status |-> None,
     current_ups_low_battery_status |-> None,
     title |-> "", ret |-> "none", wret |-> "none",
     sampled_low |-> None]

UPSStates ==
    [status : StatusTexts, pct : BatteryPercents, thr : LowThresholds, power : PowerDraws]

\* ------------------------------------------------- NUT client (reads)
\* utils/nut.py is not among the sources; each query returns the UPS's
\* current value (spec.md section 6).  Low battery is the reported charge
\* at or below the configured low threshold (spec.md, glossary).
is_ups_on_battery(u) == u.status = "OB"
is_ups_battery_low(u) == u.pct <= u.thr
get_battery_charge_percentage(u) == u.pct
get_battery_charge_low_percentage(u) == u.thr
get_ups_status(u) == u.status
get_current_power_draw(u) == u.power

\* A read either succeeds or raises a connectivity error.
ReadOutcomes == {"ok", "SourceUnavailable"}

\* ---------------------------------------------------- pure conditions
\* mutant: the held value is ignored
IsPowerOutage_Mutant(last, current) == current
\* mutant: the outage handler also runs while the held value is on-battery
IsPowerOutage_MutantHeldOn(last, current) == last \/ current
\* src/ups_monitor.py:119
IsPowerOutage(last, current) == ~last /\ current
\* src/ups_monitor.py:122
IsPowerRestoration(last, current) == last /\ ~current
\* mutant: the low-battery value held from the earlier outage tick is ignored
IsNewLowBattery_Mutant(last, current) == current
\* src/ups_monitor.py:67
IsNewLowBattery(last, current) == current /\ ~last
\* src/ups_monitor.py:41
wol == IF wol_mac_list # <<>> THEN Some(wol_mac_list) ELSE None
\* mutant: the on-battery check of the gate is dropped
OnBatteryBlocksWake_Mutant(on) == FALSE
\* src/ups_monitor.py:97
OnBatteryBlocksWake(on) == on
\* mutant: a charge equal to the threshold passes the gate
ChargeTooLow_Mutant(pct, thr) == pct < thr
\* mutant: the charge is not compared with the threshold at all
ChargeTooLow_MutantUnchecked(pct, thr) == FALSE
\* src/ups_monitor.py:99-100
ChargeTooLow(pct, thr) == pct <= thr
\* mutant: an interval of 0 schedules the job too
WakeJobEnabled_Mutant(interval) == interval >= 0
\* src/ups_monitor.py:133
WakeJobEnabled(interval) == interval > 0
\* mutant: the monitor starts out believing the UPS is on battery
InitialOnBattery_Mutant == TRUE
\* src/ups_monitor.py:37-38
InitialOnBattery == FALSE
InitialLowBattery == FALSE

\* (mutant below: only the errors of requests.post are caught, not the
\* HTTPError of raise_for_status)
\* src/utils/telegram_notifier.py:62 -- the exception classes the except
\* clause of send_notification catches (requests.post raises ConnectionError
\* or Timeout, raise_for_status raises HTTPError; all are RequestExceptions)
IsRequestException_Mutant(e) == e \in {"ConnectionError", "Timeout"}
IsRequestException(e) == e \in {"ConnectionError", "Timeout", "HTTPError"}
DeliveryOutcomes == {"ok", "ConnectionError", "HTTPError"}

\* src/utils/common.py:10-15
StatusTitle(t) == <<t, "UPS Status Information">>
StatusBody(m) ==
    << <<"Battery Percentage", The(m.pct)>>,
       <<"Status", The(m.status)>>,
       <<"Low Battery", IF The(m.low) THEN "Yes" ELSE "No">>,
       <<"Power", The(m.power)>> >>

\* src/utils/telegram_notifier.py:37-40
get_full_html_message(msg_title, body) ==
    [title |-> msg_title, body |-> body,
     post |-> "Your faithful employee,\nTeleUPS"]

\* ------------------------------------------------------------------ Init
\* State after UPSMonitor.__init__ (src/ups_monitor.py:36-44); the wake
\* target list and the periodic-wake interval are configuration.
Init ==
    /\ last_ups_on_battery_status = InitialOnBattery
    /\ last_ups_low_battery_status = InitialLowBattery
    /\ wol_mac_list \in MacLists
    /\ auto_wake_interval \in WakeIntervals
    /\ jobs = {}
    /\ pc = "start"
    /\ exc = "none"
    /\ frame = NoFrame
    /\ ups \in UPSStates
    /\ listener = "notstarted"
    /\ inbound = None
    /\ sent = <<>>
    /\ all_deliveries_failed = TRUE
    /\ samples = <<>>
    /\ low_read = None
    /\ nwakes = 0
    /\ low_reads = <<>>
    /\ wol_call = None

\* ------------------------------------------------------- scheduler thread
\* monitor_ups has ended: it runs on the main thread and the listener is a
\* daemon thread (src/ups_monitor.py:138-142), so the interpreter exits and
\* takes the listener with it.  The frames of the running job and the
\* update the listener was handling are gone.
Ends(how, e) ==
    /\ pc' = how
    /\ exc' = e
    /\ frame' = NoFrame
    /\ listener' = "dead"
    /\ inbound' = None

\* An exception raised inside a job: nothing on the way up catches it (the
\* only handler in monitor_ups, src/ups_monitor.py:147, is for
\* KeyboardInterrupt), so it leaves the job, run_pending, the while loop and
\* monitor_ups.
Raise(e) == Ends("raised", e)

\* Control moves on inside the scheduler thread with the frame f.
Goto(label, f) ==
    /\ pc' = label
    /\ exc' = exc
    /\ frame' = f
    /\ listener' = listener
    /\ inbound' = inbound

\* src/ups_monitor.py:144-146 -- the thread is inside the while loop
Running == pc \notin {"start", "raised", "interrupted"}

\* src/ups_monitor.py:131-142
monitor_ups_start ==
    /\ pc = "start"
    /\ jobs' = {"check"} \cup (IF WakeJobEnabled(auto_wake_interval) THEN {"wake"} ELSE {})
    /\ listener' = "alive"
    /\ pc' = "loop"
    /\ UNCHANGED <<wol_call, monitorState, config, exc, frame, ups, inbound, history>>

\* src/ups_monitor.py:144-145 -- run_pending starts the due check job
run_pending_check ==
    /\ pc = "loop"
    /\ "check" \in jobs
    /\ Len(samples) < MaxTicks
    /\ Goto("check", [NoFrame EXCEPT !.job = "check"])
    /\ UNCHANGED <<wol_call, monitorState, config, jobs, ups, sent,
                   all_deliveries_failed, samples, low_read, low_reads, nwakes>>

\* src/ups_monitor.py:116-123
check_ups_status ==
    /\ pc = "check"
    /\ \E o \in ReadOutcomes :
        IF o # "ok"
        THEN Raise(o) /\ samples' = samples
        ELSE LET cur == is_ups_on_battery(ups)
                 f == [frame EXCEPT !.current_ups_on_battery_status = Some(cur),
                                    !.sampled_low = Some(is_ups_battery_low(ups))]
             IN
             /\ samples' = Append(samples, cur)
             /\ IF IsPowerOutage(last_ups_on_battery_status, cur)
                THEN Goto("notify", [f EXCEPT !.title = "Power outage!",
                                              !.ret = "outage"])
                ELSE IF IsPowerRestoration(last_ups_on_battery_status, cur)
                THEN Goto("notify", [f EXCEPT !.title = "Power restoration!",
                                              !.ret = "wake",
                                              !.wret = "store"])
                ELSE Goto("store", f)
    /\ UNCHANGED <<wol_call, monitorState, config, jobs, ups, sent,
                   all_deliveries_failed, low_read, low_reads, nwakes>>

\* mutant: a delivery that failed is attempted again
AfterDelivery_Mutant(d, f) ==
    IF d = "ok"
    THEN [pc |-> f.ret, frame |-> [f EXCEPT !.title = "", !.ret = "none"]]
    ELSE [pc |-> "notify", frame |-> f]
\* src/utils/telegram_notifier.py:54-65 -- where send_notification leaves the
\* thread after its one requests.post: delivered or not, it returns to the
\* caller of send_ups_status_notification
AfterDelivery(d, f) ==
    [pc |-> f.ret, frame |-> [f EXCEPT !.title = "", !.ret = "none"]]

\* src/ups_monitor.py:46-55 with src/utils/common.py:3-15 and
\* src/utils/telegram_notifier.py:42-65: the four status reads, then one
\* delivery attempt; a RequestException is logged and swallowed
send_ups_status_notification ==
    /\ pc = "notify"
    /\ \E o \in ReadOutcomes, d \in DeliveryOutcomes :
        IF o # "ok"
        THEN Raise(o) /\ UNCHANGED <<sent, all_deliveries_failed>>
        ELSE /\ sent' = Append(sent, [ev |-> frame.title, job |-> frame.job, tick |-> Len(samples)])
             /\ all_deliveries_failed' = (all_deliveries_failed /\ d # "ok")
             /\ IF d = "ok" \/ IsRequestException(d)
                THEN Goto(AfterDelivery(d, frame).pc, AfterDelivery(d, frame).frame)
                ELSE Raise(d)
    /\ UNCHANGED <<wol_call, monitorState, config, jobs, ups, samples, low_read, low_reads,
                   nwakes>>

\* mutant: the low-battery value is stored as soon as it is read, before the
\* 'Low battery!' notification
handle_power_outage_Mutant ==
    /\ pc = "outage"
    /\ \E o \in ReadOutcomes :
        IF o # "ok"
        THEN Raise(o) /\ UNCHANGED <<low_read, low_reads, last_ups_low_battery_status>>
        ELSE LET low == is_ups_battery_low(ups)
                 f == [frame EXCEPT !.current_ups_low_battery_status = Some(low)]
             IN /\ low_read' = Some(low)
                /\ low_reads' = Append(low_reads, [tick |-> Len(samples), low |-> low])
                /\ last_ups_low_battery_status' = low
                /\ IF IsNewLowBattery(last_ups_low_battery_status, low)
                   THEN Goto("notify", [f EXCEPT !.title = "Low battery!", !.ret = "store"])
                   ELSE Goto("store", f)
    /\ UNCHANGED <<wol_call, last_ups_on_battery_status, config, jobs, ups,
                   sent, all_deliveries_failed, samples, nwakes>>

\* src/ups_monitor.py:64-71
handle_power_outage ==
    /\ pc = "outage"
    /\ \E o \in ReadOutcomes :
        IF o # "ok"
        THEN Raise(o) /\ UNCHANGED <<low_read, low_reads>>
        ELSE LET low == is_ups_battery_low(ups)
                 f == [frame EXCEPT !.current_ups_low_battery_status = Some(low)]
             IN /\ low_read' = Some(low)
                /\ low_reads' = Append(low_reads, [tick |-> Len(samples), low |-> low])
                /\ IF IsNewLowBattery(last_ups_low_battery_status, low)
                   THEN Goto("notify", [f EXCEPT !.title = "Low battery!", !.ret = "store"])
                   ELSE Goto("store", f)
    /\ UNCHANGED <<wol_call, monitorState, config, jobs, ups, sent,
                   all_deliveries_failed, samples, nwakes>>

\* mutant: every tick stores the low-battery status
StoredLowBattery_Mutant(last, f) == The(f.sampled_low)
\* src/ups_monitor.py:73 -- the assignment is the last statement of
\* handle_power_outage, so it runs only in a job that has read the
\* low-battery status there
StoredLowBattery(last, f) ==
    IF f.current_ups_low_battery_status # None
    THEN The(f.current_ups_low_battery_status)
    ELSE last

\* src/ups_monitor.py:73 (only after handle_power_outage has read the
\* low-battery status) and src/ups_monitor.py:125
store_status ==
    /\ pc = "store"
    /\ last_ups_low_battery_status' = StoredLowBattery(last_ups_low_battery_status, frame)
    /\ last_ups_on_battery_status' = The(frame.current_ups_on_battery_status)
    /\ Goto("loop", NoFrame)
    /\ UNCHANGED <<wol_call, config, jobs, ups, history>>

\* mutant: the periodic job is started by a timer of its own, whatever the
\* scheduler thread is doing
run_pending_wake_Mutant ==
    /\ Running
    /\ "wake" \in jobs
    /\ nwakes < MaxWakes
    /\ nwakes' = nwakes + 1
    /\ Goto("wake", [NoFrame EXCEPT !.job = "wake", !.wret = "loop"])
    /\ UNCHANGED <<wol_call, monitorState, config, jobs, ups, sent,
                   all_deliveries_failed, samples, low_read, low_reads>>

\* src/ups_monitor.py:144-145 -- run_pending starts the due periodic-wake job
run_pending_wake ==
    /\ pc = "loop"
    /\ "wake" \in jobs
    /\ nwakes < MaxWakes
    /\ nwakes' = nwakes + 1
    /\ Goto("wake", [NoFrame EXCEPT !.job = "wake", !.wret = "loop"])
    /\ UNCHANGED <<wol_call, monitorState, config, jobs, ups, sent,
                   all_deliveries_failed, samples, low_read, low_reads>>

\* mutant: one send_magic_packet call per target
WakeOnLAN_send_wol_magic_packet_Mutant(list) ==
    IF list = None \/ list = Some(<<>>)
    THEN [ret |-> FALSE, packets |-> <<>>]
    ELSE [ret |-> TRUE,
          packets |-> [i \in 1..Len(The(list)) |-> <<The(list)[i]>>]]
\* src/utils/wol.py:9-20 -- list is the object's wol_mac_list (None, or
\* Some of a sequence); packets are the argument tuples of the
\* send_magic_packet calls made
WakeOnLAN_send_wol_magic_packet(list) ==
    IF list = None \/ list = Some(<<>>)
    THEN [ret |-> FALSE, packets |-> <<>>]
    ELSE [ret |-> TRUE, packets |-> <<The(list)>>]

\* src/ups_monitor.py:86-110 and src/utils/wol.py:9-20; the reads are made
\* left to right and only as far as the condition needs them.  Returning to
\* the scheduler loop ends the job; returning to check_ups_status goes on
\* at line 125.
send_wol_magic_packet ==
    /\ pc = "wake"
    /\ \E o \in ReadOutcomes :
        LET on  == is_ups_on_battery(ups)
            pct == get_battery_charge_percentage(ups)
            thr == get_battery_charge_low_percentage(ups)
            Return == Goto(frame.wret,
                           IF frame.wret = "loop" THEN NoFrame
                           ELSE [frame EXCEPT !.wret = "none"])
        IN IF wol = None
           THEN Return /\ sent' = sent
           ELSE IF o # "ok"
           THEN Raise(o) /\ sent' = sent
           ELSE IF OnBatteryBlocksWake(on) \/ ChargeTooLow(pct, thr)
           THEN Return /\ sent' = sent
           ELSE /\ Return
                /\ sent' = sent \o
                     [k \in 1..Len(WakeOnLAN_send_wol_magic_packet(wol).packets) |->
                        [ev |-> "WOL", job |-> frame.job, tick |-> Len(samples)]]
    /\ UNCHANGED <<wol_call, monitorState, config, jobs, ups, all_deliveries_failed,
                   samples, low_read, low_reads, nwakes>>

\* src/ups_monitor.py:147-148 -- the interrupt arrives anywhere inside the
\* try block; monitor_ups logs it and returns

\* mutant: monitor_ups has no handler for the interrupt
keyboard_interrupt_Mutant ==
    /\ Running
    /\ Raise("KeyboardInterrupt")
    /\ UNCHANGED <<wol_call, monitorState, config, jobs, ups, history>>

keyboard_interrupt ==
    /\ Running
    /\ Ends("interrupted", "KeyboardInterrupt")
    /\ UNCHANGED <<wol_call, monitorState, config, jobs, ups, history>>

\* --------------------------------------------------------------- the UPS
\* Mains power, charge and threshold change while the monitor runs.
ups_changes ==
    /\ listener # "dead"
    /\ ups' \in UPSStates \ {ups}
    /\ UNCHANGED <<wol_call, monitorState, config, jobs, pc, exc, frame, listenerVars, history>>

\* ------------------------------------------------------ command listener
\* str(chat.id), src/utils/telegram_notifier.py:74
Str(n) == IF n = -1001 THEN "-1001" ELSE IF n = -1002 THEN "-1002" ELSE "?"
\* TelegramNotifier.chat_id, src/utils/telegram_notifier.py:34
chat_id == "-1001"

\* The updates the listener is offered: the channel post '/ups' of the
\* configured chat and the updates that differ from it in one field.
Updates ==
    LET all == [type : ChatTypes, id : ChatIdNumbers, text : Texts]
        differences(u) == (IF u.type # "channel" THEN 1 ELSE 0)
                        + (IF Str(u.id) # chat_id THEN 1 ELSE 0)
                        + (IF u.text # "/ups" THEN 1 ELSE 0)
    IN {u \in all : differences(u) <= 1}

\* mutant: the sender's chat id is not compared
IgnoresUpdate_Mutant(u) ==
    \/ u.type # "channel"
    \/ u.text # "/ups"

\* src/utils/telegram_notifier.py:72-77
IgnoresUpdate(u) ==
    \/ u.type # "channel"
    \/ Str(u.id) # chat_id
    \/ u.text # "/ups"

\* mutant: the handler refreshes the monitor's held on-battery value from
\* the status it has just read
reply_ups_status_Mutant ==
    /\ listener = "alive"
    /\ \E u \in Updates :
       \E o \in IF IgnoresUpdate(u) THEN {"none"} ELSE ReadOutcomes :
        /\ inbound' =
             Some([update |-> u, reads |-> o,
                   snapshot |-> IF o = "ok" THEN Some(ups) ELSE None,
                   reply |-> None])
        /\ last_ups_on_battery_status' =
             IF o = "ok" THEN is_ups_on_battery(ups) ELSE last_ups_on_battery_status
    /\ UNCHANGED <<wol_call, last_ups_low_battery_status, config, jobs, pc, exc,
                   frame, ups, listener, history>>

\* src/utils/telegram_notifier.py:67-82 with src/utils/common.py:3-15; o is
\* the outcome of the handler's UPS reads and snapshot the UPS they saw.  An
\* exception leaving the handler is logged by the bot library's dispatcher,
\* which goes on polling.
reply_ups_status ==
    /\ listener = "alive"
    /\ \E u \in Updates :
       \E o \in IF IgnoresUpdate(u) THEN {"none"} ELSE ReadOutcomes :
        LET m == [pct |-> Some(get_battery_charge_percentage(ups)),
                  status |-> Some(get_ups_status(ups)),
                  low |-> Some(is_ups_battery_low(ups)),
                  power |-> Some(get_current_power_draw(ups))]
        IN inbound' =
             Some([update |-> u,
                   reads |-> o,
                   snapshot |-> IF o = "ok" THEN Some(ups) ELSE None,
                   reply |-> IF IgnoresUpdate(u) \/ o # "ok"
                             THEN None
                             ELSE Some(get_full_html_message(StatusTitle(""),
                                                             StatusBody(m)))])
    /\ UNCHANGED <<wol_call, monitorState, config, jobs, pc, exc, frame, ups, listener, history>>

\* ------------------------------------------------------------------ Next
Next ==
    \/ monitor_ups_start
    \/ run_pending_check
    \/ check_ups_status
    \/ send_ups_status_notification
    \/ handle_power_outage
    \/ store_status
    \/ run_pending_wake
    \/ send_wol_magic_packet
    \/ keyboard_interrupt
    \/ ups_changes
    \/ reply_ups_status

Spec == Init /\ [][Next]_vars

\* ------------------------------------------ WakeOnLAN on its own
\* src/utils/wol.py:6-7 -- the target lists a WakeOnLAN object can be built
\* with
MacAddresses == {"AA:BB:CC:DD:EE:01", "AA:BB:CC:DD:EE:02", "AA:BB:CC:DD:EE:03"}
WolMacLists ==
    {None} \cup {Some(l) : l \in UNION {[1..n -> MacAddresses] : n \in 0..MaxMacs}}

\* src/utils/wol.py:6-20 -- a WakeOnLAN object is built with a target list
\* and its send_wol_magic_packet is called
WakeOnLAN_call ==
    /\ \E list \in WolMacLists :
         wol_call' = Some([wol_mac_list |-> list,
                           ret |-> WakeOnLAN_send_wol_magic_packet(list).ret,
                           packets |-> WakeOnLAN_send_wol_magic_packet(list).packets])
    /\ UNCHANGED <<monitorState, config, jobs, pc, exc, frame, ups, listenerVars,
                   history>>

WolNext == WakeOnLAN_call
WolSpec == Init /\ [][WolNext]_vars

TypeOK ==
    /\ last_ups_on_battery_status \in BOOLEAN
    /\ last_ups_low_battery_status \in BOOLEAN
    /\ ups \in UPSStates
    /\ Len(samples) <= MaxTicks
    /\ nwakes <= MaxWakes

\* =================================================================== claims
\* Vocabulary of the claims, over the observable history.
Ticks == 1..Len(samples)
\* the on-battery value tick i is compared against: the previous tick's
\* sample, false for the first tick
Previous(i) == IF i = 1 THEN FALSE ELSE samples[i - 1]
FlipsOn(i) == ~Previous(i) /\ samples[i]
FlipsOff(i) == Previous(i) /\ ~samples[i]
\* positions in sent of what tick i's check job sent
SentBy(i) == {k \in DOMAIN sent : sent[k].job = "check" /\ sent[k].tick = i}
Sent(i, e) == {k \in SentBy(i) : sent[k].ev = e}
Broadcasts == {k \in DOMAIN sent : sent[k].ev = "WOL"}
\* tick i is past the point where it sends its transition notification
\* (every earlier tick has returned; the running one is past line 62 / 82)
Notified(i) ==
    \/ i < Len(samples)
    \/ pc \in {"outage", "wake", "store", "loop"}
    \/ pc = "notify" /\ frame.title = "Low battery!"
OffBatteryAndCharged(u) ==
    /\ ~(u.status = "OB")
    /\ u.pct > u.thr

\* C1: for every sequence of on-battery samples (the first compared against
\* false), a tick sends one 'Power outage!' per false->true flip, one 'Power
\* restoration!' per true->false flip, never more than one, and a tick
\* whose sample repeats the previous value sends nothing at all.  (A tick
\* that a failed UPS read or the interrupt ended before its notification
\* has sent none.)
C1_OncePerFlip ==
    \A i \in Ticks :
        /\ Cardinality(Sent(i, "Power outage!")) <= (IF FlipsOn(i) THEN 1 ELSE 0)
        /\ Cardinality(Sent(i, "Power restoration!")) <= (IF FlipsOff(i) THEN 1 ELSE 0)
        /\ samples[i] = Previous(i) => SentBy(i) = {}
        /\ Notified(i) =>
             /\ Cardinality(Sent(i, "Power outage!")) = (IF FlipsOn(i) THEN 1 ELSE 0)
             /\ Cardinality(Sent(i, "Power restoration!")) = (IF FlipsOff(i) THEN 1 ELSE 0)

\* C1 witness: held false, two consecutive reads of true, then a read of
\* false: one outage and one restoration notification in all.
C1_Witness ==
    /\ samples = <<TRUE, TRUE, FALSE>>
    /\ pc = "loop"
    /\ Cardinality({k \in DOMAIN sent : sent[k].ev = "Power outage!"}) = 1
    /\ Cardinality({k \in DOMAIN sent : sent[k].ev = "Power restoration!"}) = 1
    /\ Sent(2, "Power outage!") = {}

\* C2 (as claimed): in an outage episode whose outage tick read low-battery
\* false, the later tick of the episode that samples on-battery with the
\* UPS's low-battery flag true sends 'Low battery!' on that tick.
C2_LowBatteryWithinEpisode ==
    ( /\ pc = "store"
      /\ frame.job = "check"
      /\ last_ups_on_battery_status
      /\ frame.current_ups_on_battery_status = Some(TRUE)
      /\ ~last_ups_low_battery_status
      /\ frame.sampled_low = Some(TRUE) )
    => Sent(Len(samples), "Low battery!") # {}

\* C3: in a restoration tick the wake gate runs after the 'Power
\* restoration!' notification was attempted, and it broadcasts if and only if
\* wake targets are configured and the UPS as read at gate time is off
\* battery with a charge strictly above the low threshold; a gate whose read
\* fails broadcasts nothing.
C3_AtGate == pc = "wake" /\ frame.job = "check"
C3_WakeGate ==
    /\ [](C3_AtGate => /\ FlipsOff(Len(samples))
                       /\ Sent(Len(samples), "Power restoration!") # {}
                       /\ Sent(Len(samples), "WOL") = {})
    /\ [][ (C3_AtGate /\ pc' = "store") =>
             IF wol_mac_list # <<>> /\ OffBatteryAndCharged(ups)
             THEN sent' = Append(sent, [ev |-> "WOL", job |-> "check",
                                        tick |-> Len(samples)])
             ELSE sent' = sent ]_vars
    /\ [][ (C3_AtGate /\ pc' = "raised") => sent' = sent ]_vars

\* C3 witness: a restoration tick has attempted its notification and then
\* broadcast, and is about to store the sample.
C3_Witness ==
    /\ pc = "store"
    /\ \E k \in Sent(Len(samples), "WOL") :
         k > 1 /\ sent[k - 1].ev = "Power restoration!" /\ sent[k - 1].tick = Len(samples)

\* C4 (as claimed): a failed UPS read is fatal to its tick only, the
\* scheduler loop of monitor_ups keeps running.
C4_LoopSurvivesReadFailure == exc = "SourceUnavailable" => Running

\* C5 (as claimed): a UPS read failure escaping a tick never terminates the
\* command listener.
C5_ListenerSurvivesReadFailure == exc = "SourceUnavailable" => listener = "alive"

\* C6: whatever the transport does to the deliveries, and so also when every
\* one of them fails, no transport error leaves a tick, and once the tick
\* has returned lastOnBattery is the on-battery value it read and
\* lastLowBattery the low-battery value the last outage tick read.
C6_DeliveryFailureSwallowed ==
    /\ ~IsRequestException(exc)
    /\ exc \in {"none", "SourceUnavailable", "KeyboardInterrupt"}
    /\ (pc = "loop" /\ samples # <<>>) =>
          last_ups_on_battery_status = samples[Len(samples)]
    /\ (pc = "loop" /\ low_read # None) =>
          last_ups_low_battery_status = The(low_read)

\* C6 witness: an outage tick with the battery low has returned, both its
\* notifications failed at the transport, and both flags are updated.
C6_Witness ==
    /\ pc = "loop"
    /\ all_deliveries_failed
    /\ Sent(1, "Power outage!") # {}
    /\ Sent(1, "Low battery!") # {}
    /\ last_ups_on_battery_status
    /\ last_ups_low_battery_status

\* the process started with the UPS on battery and it has been on battery
\* at every tick since
StartedOnBattery == samples # <<>> /\ \A i \in Ticks : samples[i]
OutageNotifications == {k \in DOMAIN sent : sent[k].ev = "Power outage!"}

\* C7 (as claimed): started on battery, no 'Power outage!' is sent on the
\* first tick nor on any later tick while the sample stays true.
C7_NoOutageWhenStartedOnBattery == StartedOnBattery => OutageNotifications = {}

\* C7 (amended): started on battery, the first tick takes the outage branch
\* and, once its status reads have succeeded, has sent exactly one 'Power
\* outage!'; no later tick sends another while the sample stays true.
C7_OutageOnFirstTick ==
    StartedOnBattery =>
        /\ OutageNotifications \subseteq Sent(1, "Power outage!")
        /\ Cardinality(OutageNotifications) <= 1
        /\ Notified(1) => Cardinality(OutageNotifications) = 1

\* C7 witness: two ticks on battery from the start, one outage notification.
C7_Witness ==
    /\ StartedOnBattery
    /\ Len(samples) = 2
    /\ pc = "loop"
    /\ Cardinality(OutageNotifications) = 1

\* C8: handling an inbound update sends one reply, built from the UPS values
\* read while handling it, if and only if the update is a channel post of the
\* configured chat whose text is exactly '/ups' (and the reads succeed);
\* every other update gets no reply.
ConfiguredChannel == CHOOSE n \in ChatIdNumbers : Str(n) = chat_id
IsStatusRequest(u) == u.type = "channel" /\ u.id = ConfiguredChannel /\ u.text = "/ups"
C8_ReplyOnlyToStatusRequest ==
    \A h \in inbound :
        /\ h.reply # None <=> (IsStatusRequest(h.update) /\ h.reads = "ok")
        /\ ~IsStatusRequest(h.update) => h.reads = "none"
        /\ \A r \in h.reply, u \in h.snapshot :
             /\ r.title = <<"", "UPS Status Information">>
             /\ r.body = << <<"Battery Percentage", u.pct>>,
                            <<"Status", u.status>>,
                            <<"Low Battery", IF u.pct <= u.thr THEN "Yes" ELSE "No">>,
                            <<"Power", u.power>> >>

\* C8 witness: a status request was answered and the UPS has changed since.
C8_Witness ==
    \E h \in inbound :
        /\ IsStatusRequest(h.update)
        /\ h.reply # None
        /\ h.snapshot # Some(ups)

\* C9 (as claimed): with wake targets configured, every firing of the
\* periodic wake job issues a broadcast, whatever the UPS reports.
PeriodicBroadcasts == {k \in Broadcasts : sent[k].job = "wake"}
C9_PeriodicWakeUnconditional ==
    (pc = "loop" /\ wol_mac_list # <<>>) => Cardinality(PeriodicBroadcasts) = nwakes

\* C9 (amended): a firing of the periodic wake job issues a broadcast if and
\* only if wake targets are configured and the UPS as read by the job is off
\* battery with a charge strictly above the low threshold.
C9_AtGate == pc = "wake" /\ frame.job = "wake"
C9_PeriodicWakeGated ==
    /\ [][ (C9_AtGate /\ pc' = "loop") =>
             IF wol_mac_list # <<>> /\ OffBatteryAndCharged(ups)
             THEN sent' = Append(sent, [ev |-> "WOL", job |-> "wake",
                                        tick |-> Len(samples)])
             ELSE sent' = sent ]_vars
    /\ [][ (C9_AtGate /\ pc' = "raised") => sent' = sent ]_vars

\* C9 witness: a periodic wake job has run with targets configured and has
\* broadcast.
C9_Witness ==
    /\ pc = "loop"
    /\ wol_mac_list # <<>>
    /\ nwakes >= 1
    /\ PeriodicBroadcasts # {}

\* C10: the periodic wake job is scheduled only for a positive
\* auto_wake_interval; with 0 or a negative interval the only broadcasts are
\* those a restoration tick issues after its notification.
C10_NoPeriodicWakeUnlessPositive ==
    /\ "wake" \in jobs => auto_wake_interval > 0
    /\ auto_wake_interval <= 0 =>
         /\ nwakes = 0
         /\ \A k \in Broadcasts :
              /\ sent[k].job = "check"
              /\ FlipsOff(sent[k].tick)
              /\ k > 1
              /\ sent[k - 1] = [ev |-> "Power restoration!", job |-> "check",
                                tick |-> sent[k].tick]

\* C10 witness: the interval is not positive and a restoration tick has
\* broadcast.
C10_Witness ==
    /\ auto_wake_interval <= 0
    /\ pc \notin {"start"}
    /\ Broadcasts # {}

\* C11: a failed delivery is never retried.  A call of
\* send_ups_status_notification makes one delivery attempt and hands control
\* back to its caller whatever the transport did, and a notification is
\* attempted again by a later tick only after the on-battery sample has
\* flipped in between; this holds for every attempt, and so for every one
\* that failed.
Titles == {"Power outage!", "Power restoration!", "Low battery!"}
C11_NeverRetried ==
    /\ [](pc = "notify" => frame.title \in Titles /\ frame.ret \in {"outage", "wake", "store"})
    /\ [][ (pc = "notify" /\ sent' # sent) =>
             /\ sent' = Append(sent, [ev |-> frame.title, job |-> "check",
                                      tick |-> Len(samples)])
             /\ pc' = frame.ret ]_vars
    /\ [][ pc = "notify" => pc' \in {"notify", frame.ret, "raised", "interrupted"} ]_vars
    /\ [](\A k1, k2 \in DOMAIN sent :
            (k1 < k2 /\ sent[k1].ev \in Titles /\ sent[k1].ev = sent[k2].ev) =>
               /\ sent[k1].tick < sent[k2].tick
               /\ \E m \in (sent[k1].tick + 1)..(sent[k2].tick - 1) :
                      samples[m] # samples[sent[k1].tick])

\* C11 witness: the outage notification of the first tick failed at the
\* transport, and the next tick, still on battery, has returned without
\* attempting it again.
C11_Witness ==
    /\ pc = "loop"
    /\ samples = <<TRUE, TRUE>>
    /\ all_deliveries_failed
    /\ Cardinality(OutageNotifications) = 1
    /\ SentBy(2) = {}

\* C12: WakeOnLAN.send_wol_magic_packet returns false and makes no network
\* send when its target list is empty or None; otherwise it makes exactly
\* one send_magic_packet call, addressed to all the targets, and returns
\* true.
C12_BroadcastOnceOrNever ==
    \A c \in wol_call :
        IF c.wol_mac_list = None \/ (\E l \in c.wol_mac_list : Len(l) = 0)
        THEN c.ret = FALSE /\ Len(c.packets) = 0
        ELSE /\ c.ret = TRUE
             /\ Len(c.packets) = 1
             /\ \A l \in c.wol_mac_list : c.packets[1] = l

\* C12 witness: a call on a list of several targets has made one send
\* covering them all.
C12_Witness ==
    \E c \in wol_call :
        /\ c.ret = TRUE
        /\ Len(c.packets) = 1
        /\ Len(c.packets[1]) >= 2

\* C13: once the interrupt has been received the scheduler loop has stopped:
\* no tick and no periodic wake can start any more, the job that was running
\* makes no further step, and monitor_ups has returned through its handler
\* (the interrupt never leaves it as an error).
SchedulerStep ==
    \/ run_pending_check
    \/ run_pending_wake
    \/ check_ups_status
    \/ send_ups_status_notification
    \/ handle_power_outage
    \/ store_status
    \/ send_wol_magic_packet
C13_InterruptStopsLoop ==
    /\ exc = "KeyboardInterrupt" => pc = "interrupted"
    /\ pc = "interrupted" =>
         /\ exc = "KeyboardInterrupt"
         /\ ~Running
         /\ ~ENABLED SchedulerStep

\* C13 witness: the interrupt arrived while a tick was between its outage
\* notification and the rest of the job, with ticks and periodic wakes still
\* to come.
C13_Witness ==
    /\ pc = "interrupted"
    /\ sent # <<>>
    /\ Len(samples) < MaxTicks
    /\ "wake" \in jobs
    /\ nwakes < MaxWakes
    /\ last_ups_on_battery_status # samples[Len(samples)]

\* C14: lastLowBattery is written only by the outage handler.  No step of a
\* restoration tick, of a no-change tick, of a periodic wake or of the
\* command listener changes it, and every outage tick that completes leaves
\* it equal to the low-battery value that tick read, whether or not it sent
\* 'Low battery!'.
OutageTickStoring ==
    /\ pc = "store"
    /\ frame.job = "check"
    /\ IsPowerOutage(last_ups_on_battery_status, samples[Len(samples)])
C14_LowBatteryWrittenByOutageOnly ==
    /\ [][ last_ups_low_battery_status' # last_ups_low_battery_status =>
             OutageTickStoring ]_vars
    /\ [][ (OutageTickStoring /\ pc' = "loop") =>
             /\ low_read # None
             /\ frame.current_ups_low_battery_status = low_read
             /\ last_ups_low_battery_status' = The(low_read) ]_vars
    /\ [](OutageTickStoring =>
            (Sent(Len(samples), "Low battery!") # {} <=>
               (The(low_read) /\ ~last_ups_low_battery_status)))

\* C14 witness: the first outage tick read low battery and notified it; the
\* outage tick of the next episode read not-low, sent no 'Low battery!' and
\* reset the flag.
C14_Witness ==
    /\ pc = "loop"
    /\ samples = <<TRUE, FALSE, TRUE>>
    /\ Sent(1, "Low battery!") # {}
    /\ Sent(3, "Low battery!") = {}
    /\ low_read = Some(FALSE)
    /\ ~last_ups_low_battery_status

\* C15: a 'Low battery!' notification is sent only inside a tick that took
\* the outage branch (held on-battery false, read true) and directly after
\* that tick's 'Power outage!' notification; a restoration tick, a no-change
\* tick and a periodic wake never send one.
LowBatteryNotifications == {k \in DOMAIN sent : sent[k].ev = "Low battery!"}
C15_LowBatteryOnlyInOutageTick ==
    /\ \A k \in LowBatteryNotifications :
         /\ sent[k].job = "check"
         /\ sent[k].tick \in Ticks
         /\ FlipsOn(sent[k].tick)
         /\ k > 1
         /\ sent[k - 1] = [ev |-> "Power outage!", job |-> "check",
                           tick |-> sent[k].tick]
    /\ (pc = "notify" /\ frame.title = "Low battery!") =>
         /\ ~last_ups_on_battery_status
         /\ frame.current_ups_on_battery_status = Some(TRUE)
         /\ Sent(Len(samples), "Power outage!") # {}

\* C15 witness: the second outage episode's outage tick has sent 'Power
\* outage!' and then 'Low battery!'; the restoration tick between the
\* episodes sent neither.
C15_Witness ==
    /\ samples = <<TRUE, FALSE, TRUE>>
    /\ pc = "store"
    /\ Sent(3, "Power outage!") # {}
    /\ Sent(3, "Low battery!") # {}
    /\ Sent(2, "Low battery!") = {}
    /\ Sent(1, "Low battery!") = {}

\* C16: at most one job is in flight at any time.  A tick or a periodic wake
\* starts only from the scheduler loop, when the job before it has returned
\* (or ended the loop), and lastOnBattery/lastLowBattery are written only by
\* the one tick in flight, as its last step.
JobInFlight == pc \in {"check", "notify", "outage", "wake", "store"}
C16_OneJobInFlight ==
    /\ [](JobInFlight <=> frame.job # "none")
    /\ [][ (nwakes' # nwakes \/ (pc' = "check" /\ pc # "check")) =>
             /\ pc = "loop"
             /\ frame = NoFrame
             /\ frame'.job \in {"check", "wake"} ]_vars
    /\ [][ (JobInFlight /\ frame'.job # frame.job) =>
             (frame'.job = "none" /\ pc' \in {"loop", "raised", "interrupted"}) ]_vars
    /\ [][ monitorState' # monitorState =>
             (pc = "store" /\ frame.job = "check" /\ pc' = "loop") ]_vars

\* C16 witness: a tick has run to completion, then a periodic wake has, and
\* the second tick is starting.
C16_Witness ==
    /\ pc = "check"
    /\ Len(samples) = 1
    /\ nwakes = 1
    /\ PeriodicBroadcasts # {}
    /\ \A k \in PeriodicBroadcasts : sent[k].tick = 1

\* C17: handling an inbound update, matching or not and at whatever point
\* of a tick it arrives, leaves lastOnBattery, lastLowBattery, the scheduler
\* thread and everything the ticks have sent exactly as they were, and the
\* handler can run whatever MonitorState holds; so the notifications and
\* wake broadcasts of the ticks are those of the run without the update.
C17_ListenerLeavesMonitorAlone ==
    /\ [][ (inbound' # inbound /\ inbound' # None) =>
             UNCHANGED <<monitorState, config, jobs, pc, exc, frame, ups, listener,
                         history>> ]_vars
    /\ [](listener = "alive" => ENABLED reply_ups_status)
    /\ [](\A h \in inbound : \A r \in h.reply :
            r = get_full_html_message(
                  StatusTitle(""),
                  StatusBody([pct |-> {u.pct : u \in h.snapshot},
                              status |-> {u.status : u \in h.snapshot},
                              low |-> {u.pct <= u.thr : u \in h.snapshot},
                              power |-> {u.power : u \in h.snapshot}])))

\* C17 witness: a status request was answered, from a UPS on mains, and an
\* outage tick is under way with its held value still false.
C17_Witness ==
    /\ pc = "outage"
    /\ ~last_ups_on_battery_status
    /\ Sent(1, "Power outage!") # {}
    /\ \E h \in inbound :
         /\ h.reply # None
         /\ \E u \in h.snapshot : u.status = "OL"

\* C18: the low-battery debounce is carried across outage episodes.  An
\* outage tick sends 'Low battery!' if and only if the low-battery value it
\* read is true and the value read by the most recent earlier outage tick
\* (false when there is none) was false; so of two successive episodes that
\* both begin with low battery only the first is notified.
PreviousLowRead(j) == IF j = 1 THEN FALSE ELSE low_reads[j - 1].low
\* the outage tick of the j-th low-battery read is past line 71
PastLowBatteryNotification(j) ==
    \/ low_reads[j].tick < Len(samples)
    \/ pc \in {"store", "loop"}
C18_DebounceAcrossEpisodes ==
    \A j \in DOMAIN low_reads :
        /\ FlipsOn(low_reads[j].tick)
        /\ Cardinality(Sent(low_reads[j].tick, "Low battery!")) <= 1
        /\ Sent(low_reads[j].tick, "Low battery!") # {} =>
              (low_reads[j].low /\ ~PreviousLowRead(j))
        /\ PastLowBatteryNotification(j) =>
              (Sent(low_reads[j].tick, "Low battery!") # {} <=>
                 (low_reads[j].low /\ ~PreviousLowRead(j)))

\* C18 witness: two successive outage episodes both began with low battery;
\* the first outage tick sent 'Low battery!', the second did not.
C18_Witness ==
    /\ pc = "loop"
    /\ samples = <<TRUE, FALSE, TRUE>>
    /\ low_reads = <<[tick |-> 1, low |-> TRUE], [tick |-> 3, low |-> TRUE]>>
    /\ Sent(1, "Low battery!") # {}
    /\ Sent(3, "Low battery!") = {}
    /\ Sent(3, "Power outage!") # {}

\* C19: a tick that a failed UPS read aborts leaves lastOnBattery and
\* lastLowBattery at their values from before the tick, at whichever read
\* the failure occurs, while the notifications the tick attempted before the
\* failure stay sent; the held state the tick leaves behind therefore still
\* differs from the sample by the very transition it had notified.
HeldLowBeforeTick(i) ==
    LET earlier == {j \in DOMAIN low_reads : low_reads[j].tick < i}
    IN IF earlier = {} THEN FALSE ELSE low_reads[Cardinality(earlier)].low
TickPastSample == frame.job = "check" /\ pc \in {"notify", "outage", "wake", "store"}
C19_ReadFailureKeepsState ==
    /\ [](TickPastSample =>
            /\ last_ups_on_battery_status = Previous(Len(samples))
            /\ last_ups_low_battery_status = HeldLowBeforeTick(Len(samples)))
    /\ [][ exc' = "SourceUnavailable" =>
             /\ UNCHANGED <<monitorState, sent>>
             /\ pc' = "raised" ]_vars
    /\ [][ (exc' = "SourceUnavailable" /\ exc = "none" /\ TickPastSample) =>
             /\ Sent(Len(samples), "Power outage!") # {} =>
                   (~last_ups_on_battery_status' /\ samples'[Len(samples')])
             /\ Sent(Len(samples), "Power restoration!") # {} =>
                   (last_ups_on_battery_status' /\ ~samples'[Len(samples')]) ]_vars

\* C19 witness: the outage tick sent 'Power outage!' and 'Low battery!' is
\* due, then a status read failed; both held values are still false.
C19_Witness ==
    /\ pc = "raised"
    /\ exc = "SourceUnavailable"
    /\ samples = <<TRUE>>
    /\ Sent(1, "Power outage!") # {}
    /\ Sent(1, "Low battery!") = {}
    /\ low_reads = <<[tick |-> 1, low |-> TRUE]>>
    /\ ~last_ups_on_battery_status
    /\ ~last_ups_low_battery_status

\* C20: every wake broadcast the monitor issues, from the restoration
\* handler or from the periodic job, is issued by a gate whose reads showed
\* the UPS off battery with a charge strictly above the low threshold, with
\* wake targets configured; an outage tick and a no-change tick issue none,
\* and without targets there is never a broadcast.
IsBroadcastStep == Len(sent') > Len(sent) /\ sent'[Len(sent')].ev = "WOL"
C20_EveryBroadcastGated ==
    /\ [][ IsBroadcastStep =>
             /\ pc = "wake"
             /\ Len(sent') = Len(sent) + 1
             /\ wol_mac_list # <<>>
             /\ ups.status # "OB"
             /\ ups.pct > ups.thr
             /\ frame.job = "check" => FlipsOff(Len(samples)) ]_vars
    /\ [](\A k \in Broadcasts :
            \/ sent[k].job = "wake"
            \/ sent[k].job = "check" /\ FlipsOff(sent[k].tick))
    /\ [](wol_mac_list = <<>> => Broadcasts = {})

\* C20 witness: a restoration tick and a periodic wake job have each issued
\* a broadcast.
C20_Witness ==
    /\ \E k \in Broadcasts : sent[k].job = "check"
    /\ \E k \in Broadcasts : sent[k].job = "wake"

====
